---------------------------- MODULE Spec2Model ----------------------------
(***************************************************************************)
(* A model of the SchoolMenu plugin (src/schoolmenu.py): settings parsing, *)
(* the GraphQL fetch pipeline (district validation, menu-type resolution,  *)
(* monthly item queries, boilerplate filtering, chronological ordering),   *)
(* the school-day window and the projection handed to the renderer.        *)
(*                                                                         *)
(* Strings are sequences of one-character strings, so that strip(),        *)
(* lower(), whitespace collapsing, substring search, zero padding and the  *)
(* code-point order used by sorted() are computed and not assumed.         *)
(* Dates are records [year, month, day] of the proleptic Gregorian         *)
(* calendar.  The wall clock is part of the state: a render request reads  *)
(* date.today() at lines 154, 263, 275, 310 and 374, and midnight may pass *)
(* between two of these reads.  A direct call of fetch_menu_items or of    *)
(* _next_school_days reads the clock once, so that the clock's later       *)
(* movement cannot be observed there and is left out.                      *)
(***************************************************************************)
EXTENDS Integers, Sequences, FiniteSets, TLC

VARIABLES
    pc,            \* control point of the running call
    today,         \* the wall clock: the value date.today() returns now
    midnight,      \* whether midnight has passed since the request started
    clock_reads,   \* the reads of date.today() made so far, in order
    settings,      \* raw settings mapping given to generate_image
    cfg,           \* ParsedSettings (district_id, school_id, menu_name, days)
    args,          \* arguments of fetch_menu_items
    provider,      \* what the remote GraphQL service holds and how it may fail
    queries,       \* the network round-trips issued so far, in order
    menu_type_id,  \* fetch_menu_items: resolved menu type id
    months_to_fetch, \* fetch_menu_items: (0-indexed month, year) pairs
    by_date,       \* fetch_menu_items: insertion-ordered date -> names
    fetched,       \* outcome of fetch_menu_items: returned mapping or raised error
    fetch_ok,      \* generate_image: fetch_ok
    all_items,     \* generate_image: all_items
    target_days,   \* generate_image: target_days
    day_iter,      \* generate_image: number of target_days the for loop has taken
    menu_subset,   \* generate_image: menu_subset (menu_data of the template)
    rendered,      \* calls made to render_image, with the menu_data passed
    raised,        \* exception leaving generate_image, if any
    n,             \* _next_school_days: argument n
    cur,           \* _next_school_days: cur
    out            \* _next_school_days: out

vars == <<pc, today, midnight, clock_reads, settings, cfg, args, provider, queries,
          menu_type_id, months_to_fetch, by_date, fetched, fetch_ok, all_items,
          target_days, day_iter, menu_subset, rendered, raised, n, cur, out>>

(***************************************************************************)
(* Bounds of the model.                                                    *)
(***************************************************************************)
\* number of consecutive days from which a render request draws today
PipelineSpan == 7
\* number of consecutive calendar years from which today is drawn
NumYears == 1
\* largest number of menu types the provider returns
MaxTypes == 3
\* largest number of raw items the provider holds for the months of one fetch
MaxItems == 3
\* largest number of raw items one monthly query of a render request returns
MaxNearItems == 1

(***************************************************************************)
(* Program constants.                                                      *)
(***************************************************************************)
MIN_DAYS == 1
MAX_DAYS == 5
DEFAULT_DAYS == 3
LATE_DAY == 20
PENDING_TEXT == <<"N","o","t"," ","y","e","t"," ","p","u","b","l","i","s","h","e","d">>
NOT_AVAILABLE_TEXT == <<"M","e","n","u"," ","n","o","t"," ","a","v","a","i","l","a","b","l","e">>

(***************************************************************************)
(* Strings.                                                                *)
(***************************************************************************)
Whitespace == {" ", "\t", "\n"}

UpperAlpha == <<"A","B","C","D","E","F","G","H","I","J","K","L","M",
                "N","O","P","Q","R","S","T","U","V","W","X","Y","Z">>
LowerAlpha == <<"a","b","c","d","e","f","g","h","i","j","k","l","m",
                "n","o","p","q","r","s","t","u","v","w","x","y","z">>

\* str.lower() on one character
LowerChar(c) ==
    IF \E i \in 1..26 : UpperAlpha[i] = c
    THEN LowerAlpha[CHOOSE i \in 1..26 : UpperAlpha[i] = c]
    ELSE c

\* str.lower()
Lower(s) == [i \in 1..Len(s) |-> LowerChar(s[i])]

RECURSIVE LStrip(_)
LStrip(s) ==
    IF s # <<>> /\ Head(s) \in Whitespace THEN LStrip(Tail(s)) ELSE s

RECURSIVE RStrip(_)
RStrip(s) ==
    IF s # <<>> /\ s[Len(s)] \in Whitespace
    THEN RStrip(SubSeq(s, 1, Len(s) - 1))
    ELSE s

\* str.strip()
Strip(s) == RStrip(LStrip(s))

\* re.sub(r"\s+", " ", s): every maximal run of whitespace becomes one space
RECURSIVE CollapseWhitespace(_)
CollapseWhitespace(s) ==
    IF s = <<>> THEN <<>>
    ELSE IF Head(s) \in Whitespace
         THEN <<" ">> \o CollapseWhitespace(LStrip(Tail(s)))
         ELSE <<Head(s)>> \o CollapseWhitespace(Tail(s))

\* _normalize_name
NormalizeName(name) == CollapseWhitespace(Lower(Strip(name)))

\* Python's `sub in s` on strings
Contains(sub, s) ==
    \E i \in 0..(Len(s) - Len(sub)) : SubSeq(s, i + 1, i + Len(sub)) = sub

(***************************************************************************)
(* Dates (datetime.date).                                                  *)
(***************************************************************************)
IsLeap(y) == (y % 4 = 0) /\ ((y % 100 # 0) \/ (y % 400 = 0))

DaysInMonth(y, m) ==
    IF m = 2 THEN (IF IsLeap(y) THEN 29 ELSE 28)
    ELSE IF m \in {4, 6, 9, 11} THEN 30 ELSE 31

MkDate(y, m, d) == [year |-> y, month |-> m, day |-> d]

\* the dates today is drawn from
Dates ==
    {x \in [year : 2024..(2024 + NumYears - 1), month : 1..12, day : 1..31] :
        x.day <= DaysInMonth(x.year, x.month)}

RECURSIVE DaysBeforeMonth(_, _)
DaysBeforeMonth(y, m) ==
    IF m = 1 THEN 0 ELSE DaysBeforeMonth(y, m - 1) + DaysInMonth(y, m - 1)

\* date.toordinal(): 1 for 0001-01-01
Ordinal(d) ==
    LET y == d.year - 1
    IN  365 * y + (y \div 4) - (y \div 100) + (y \div 400)
        + DaysBeforeMonth(d.year, d.month) + d.day

\* date.weekday(): Monday is 0, Sunday is 6
Weekday(d) == (Ordinal(d) + 6) % 7

\* d + timedelta(days=1)
AddDay(d) ==
    IF d.day < DaysInMonth(d.year, d.month) THEN MkDate(d.year, d.month, d.day + 1)
    ELSE IF d.month < 12 THEN MkDate(d.year, d.month + 1, 1)
    ELSE MkDate(d.year + 1, 1, 1)

RECURSIVE AddDays(_, _)
AddDays(d, k) == IF k = 0 THEN d ELSE AddDays(AddDay(d), k - 1)

\* comparison of dates (date.__ge__ and friends)
DateLE(a, b) == Ordinal(a) <= Ordinal(b)


(***************************************************************************)
(* SchoolMenu._next_school_days                                            *)
(***************************************************************************)
\* a plausible slip: Saturday counted as a school day (weekday() < 6)
LoopBodySaturday(st) ==
    [out |-> IF Weekday(st.cur) < 6 THEN Append(st.out, st.cur) ELSE st.out,
     cur |-> AddDay(st.cur)]

\* one iteration of the while loop, on the locals cur and out
LoopBody(st) ==
    [out |-> IF Weekday(st.cur) < 5 THEN Append(st.out, st.cur) ELSE st.out,
     cur |-> AddDay(st.cur)]

RECURSIVE SchoolDaysLoop(_, _)
SchoolDaysLoop(st, k) ==
    IF Len(st.out) < k THEN SchoolDaysLoop(LoopBody(st), k) ELSE st.out

\* _next_school_days(k) when date.today() is t
NextSchoolDays(t, k) == SchoolDaysLoop([cur |-> t, out |-> <<>>], k)

(***************************************************************************)
(* JSON values of the provider's payloads and of the settings mapping.     *)
(***************************************************************************)
JNull == [t |-> "null", v |-> <<>>]
JInt(i) == [t |-> "int", v |-> i]
JStr(s) == [t |-> "str", v |-> s]

Digits == <<"0","1","2","3","4","5","6","7","8","9">>
IsDigit(c) == \E i \in 1..10 : Digits[i] = c
DigitValue(c) == (CHOOSE i \in 1..10 : Digits[i] = c) - 1

RECURSIVE DigitsValue(_)
DigitsValue(s) ==
    IF s = <<>> THEN 0
    ELSE 10 * DigitsValue(SubSeq(s, 1, Len(s) - 1)) + DigitValue(s[Len(s)])

\* int(s) on a string: surrounding whitespace and one sign are accepted,
\* anything but decimal digits after that raises ValueError (ok = FALSE)
ParseIntStr(s) ==
    LET body == Strip(s)
        signed == body # <<>> /\ Head(body) \in {"+", "-"}
        digits == IF signed THEN Tail(body) ELSE body
        good == digits # <<>> /\ \A i \in 1..Len(digits) : IsDigit(digits[i])
        mag == IF good THEN DigitsValue(digits) ELSE 0
    IN  [ok |-> good,
         v |-> IF signed /\ Head(body) = "-" THEN 0 - mag ELSE mag]

\* int(x) on a JSON value: TypeError on None, ValueError on a bad string
ParseInt(x) ==
    IF x.t = "int" THEN [ok |-> TRUE, v |-> x.v]
    ELSE IF x.t = "str" THEN ParseIntStr(x.v)
    ELSE [ok |-> FALSE, v |-> 0]

\* str(i) for i >= 0
RECURSIVE NatToStr(_)
NatToStr(i) ==
    IF i < 10 THEN <<Digits[i + 1]>>
    ELSE NatToStr(i \div 10) \o <<Digits[(i % 10) + 1]>>

\* str(i)
IntToStr(i) == IF i < 0 THEN <<"-">> \o NatToStr(0 - i) ELSE NatToStr(i)

RECURSIVE ZeroFill(_, _)
ZeroFill(s, w) == IF Len(s) >= w THEN s ELSE ZeroFill(<<"0">> \o s, w)

\* format(i, "02d")
Pad2(i) ==
    IF i < 0 THEN <<"-">> \o ZeroFill(NatToStr(0 - i), 1)
    ELSE ZeroFill(NatToStr(i), 2)

\* date.isoformat(): YYYY-MM-DD
IsoFormat(d) ==
    ZeroFill(NatToStr(d.year), 4) \o <<"-">> \o ZeroFill(NatToStr(d.month), 2)
        \o <<"-">> \o ZeroFill(NatToStr(d.day), 2)

\* code points of the characters that occur in date keys
CodePoint(c) == IF c = "-" THEN 45 ELSE 48 + DigitValue(c)

\* a < b for Python strings (code-point lexicographic order)
RECURSIVE StrLess(_, _)
StrLess(a, b) ==
    IF b = <<>> THEN FALSE
    ELSE IF a = <<>> THEN TRUE
    ELSE IF Head(a) # Head(b) THEN CodePoint(Head(a)) < CodePoint(Head(b))
    ELSE StrLess(Tail(a), Tail(b))

(***************************************************************************)
(* Ordered mappings (Python dict): a sequence of [key, names] entries in   *)
(* insertion order, keys unique.                                           *)
(***************************************************************************)
Keys(m) == {m[i].key : i \in 1..Len(m)}
HasKey(m, k) == \E i \in 1..Len(m) : m[i].key = k
Lookup(m, k) == m[CHOOSE i \in 1..Len(m) : m[i].key = k].names

\* m.setdefault(k, []).append(x)
SetDefaultAppend(m, k, x) ==
    IF HasKey(m, k)
    THEN [i \in 1..Len(m) |->
            IF m[i].key = k THEN [key |-> k, names |-> Append(m[i].names, x)] ELSE m[i]]
    ELSE Append(m, [key |-> k, names |-> <<x>>])

\* m[k] = v
SetItem(m, k, v) ==
    IF HasKey(m, k)
    THEN [i \in 1..Len(m) |-> IF m[i].key = k THEN [key |-> k, names |-> v] ELSE m[i]]
    ELSE Append(m, [key |-> k, names |-> v])

\* sorted(keys): ascending in string order
RECURSIVE SortedKeys(_)
SortedKeys(ks) ==
    IF ks = {} THEN <<>>
    ELSE LET least == CHOOSE k \in ks : \A o \in ks : o = k \/ StrLess(k, o)
         IN  <<least>> \o SortedKeys(ks \ {least})

(***************************************************************************)
(* The GraphQL helper and fetch_menu_items.                                *)
(***************************************************************************)
COMMON_MENU_ITEM_FILTER_SOURCE ==
    { <<"G","a","r","d","e","n"," ","B","a","r",":">>,
      <<"o","r","g","a","n","i","c"," ","f","r","e","s","h"," ","f","r","u","i","t","s",
        " ","a","n","d"," ","v","e","g","g","i","e","s">>,
      <<"s","t","r","a","u","s"," ","o","r","g","a","n","i","c"," ","1","%"," ","m","i","l","k">>,
      <<"n","o","n","-","f","a","t"," ","m","i","l","k">> }

COMMON_MENU_ITEM_FILTER == {NormalizeName(item) : item \in COMMON_MENU_ITEM_FILTER_SOURCE}

\* What one HTTP exchange with the endpoint produces.
TransportFailure == [status |-> "transport_error", data |-> <<>>]
GraphQLErrors == [status |-> "graphql_errors", data |-> <<>>]
Payload(d) == [status |-> "data", data |-> d]

\* _post_graphql: the exception it raises for a response, "" when it returns data
PostGraphqlError(resp) ==
    IF resp.status = "transport_error" THEN "TransportError"
    ELSE IF resp.status = "graphql_errors" THEN "GraphQLError"
    ELSE ""

\* a plausible slip: membership test dropped, any site list passes
ValidateSiteAlwaysPasses(sites, school_id) == ""

\* _validate_site_in_district on the returned sites: the error raised, "" when none
ValidateSiteInDistrict(sites, school_id) ==
    LET school_ids == {sites[i].id : i \in 1..Len(sites)}
    IN  IF school_id \notin school_ids THEN "SiteNotInDistrict" ELSE ""

\* mt.get("name", ""): the name of a menu type, "" for one without a name key (JNull)
TypeName(mt) == IF mt.name.t = "str" THEN mt.name.v ELSE <<>>

Resolved(id) == [ok |-> TRUE, id |-> id, error |-> "", names |-> <<>>]
Unresolved(e, names) == [ok |-> FALSE, id |-> <<>>, error |-> e, names |-> names]

\* a plausible slip: the first exact match wins, collisions are not reported
ResolveFirstExact(menu_name, menu_types) ==
    LET target == NormalizeName(menu_name)
        IsExact(mt) == NormalizeName(TypeName(mt)) = target
        IsPartial(mt) == Contains(target, NormalizeName(TypeName(mt)))
        exact == SelectSeq(menu_types, IsExact)
        partial == SelectSeq(menu_types, IsPartial)
    IN  IF menu_types = <<>> THEN Unresolved("NoMenuTypes", <<>>)
        ELSE IF Len(exact) >= 1 THEN Resolved(exact[1].id)
        ELSE IF Len(partial) = 1 THEN Resolved(partial[1].id)
        ELSE IF partial = <<>>
             THEN Unresolved("NotFound", [i \in 1..Len(menu_types) |-> menu_types[i].name])
        ELSE Unresolved("AmbiguousPartial", [i \in 1..Len(partial) |-> partial[i].name])

\* fetch_menu_items, name -> menuType id
ResolveMenuType(menu_name, menu_types) ==
    LET target == NormalizeName(menu_name)
        IsExact(mt) == NormalizeName(TypeName(mt)) = target
        IsPartial(mt) == Contains(target, NormalizeName(TypeName(mt)))
        exact == SelectSeq(menu_types, IsExact)
        partial == SelectSeq(menu_types, IsPartial)
    IN  IF menu_types = <<>> THEN Unresolved("NoMenuTypes", <<>>)
        ELSE IF Len(exact) = 1 THEN Resolved(exact[1].id)
        ELSE IF Len(exact) > 1 THEN Unresolved("AmbiguousExact", <<>>)
        ELSE IF Len(partial) = 1 THEN Resolved(partial[1].id)
        ELSE IF partial = <<>>
             THEN Unresolved("NotFound", [i \in 1..Len(menu_types) |-> menu_types[i].name])
        ELSE Unresolved("AmbiguousPartial", [i \in 1..Len(partial) |-> partial[i].name])

\* a plausible slip: the next month is fetched from the 20th on (>= for >)
MonthsToFetchFromThe20th(t) ==
    IF t.day >= LATE_DAY
    THEN IF t.month = 12
         THEN << <<t.month - 1, t.year>>, <<0, t.year + 1>> >>
         ELSE << <<t.month - 1, t.year>>, <<t.month, t.year>> >>
    ELSE << <<t.month - 1, t.year>> >>

\* months_to_fetch: (0-indexed month, year) pairs
MonthsToFetch(t) ==
    IF t.day > LATE_DAY
    THEN IF t.month = 12
         THEN << <<t.month - 1, t.year>>, <<0, t.year + 1>> >>
         ELSE << <<t.month - 1, t.year>>, <<t.month, t.year>> >>
    ELSE << <<t.month - 1, t.year>> >>

\* Python truthiness of a JSON value
Truthy(x) ==
    IF x.t = "int" THEN x.v # 0
    ELSE IF x.t = "str" THEN x.v # <<>>
    ELSE FALSE

\* the date key of a raw item of the query for (m_idx, year_val)
DateKey(it, m_idx, year_val) ==
    LET month_num == IF it.month.t = "int" THEN it.month.v + 1 ELSE m_idx + 1
        item_year == IF Truthy(it.year) THEN it.year ELSE JInt(year_val)
        year_text == IF item_year.t = "int" THEN IntToStr(item_year.v) ELSE item_year.v
    IN  year_text \o <<"-">> \o Pad2(month_num) \o <<"-">> \o Pad2(ParseInt(it.day).v)

\* whether the body of the item loop reaches the append for this item
ItemKept(it) ==
    /\ ParseInt(it.day).ok
    /\ Truthy(it.name)
    /\ NormalizeName(it.name.v) \notin COMMON_MENU_ITEM_FILTER

\* one iteration of `for it in items`
ProcessItem(by, it, m_idx, year_val) ==
    IF ItemKept(it)
    THEN SetDefaultAppend(by, DateKey(it, m_idx, year_val), it.name.v)
    ELSE by

RECURSIVE ProcessItems(_, _, _, _)
ProcessItems(by, items, m_idx, year_val) ==
    IF items = <<>> THEN by
    ELSE ProcessItems(ProcessItem(by, Head(items), m_idx, year_val),
                      Tail(items), m_idx, year_val)

\* a plausible slip: the final ordering step is left out
FinishFetchUnsorted(by) == SelectSeq(by, LAMBDA e : e.names # <<>>)

\* the tail of fetch_menu_items: order by key, drop empty dates
FinishFetch(by) ==
    LET ks == SortedKeys(Keys(by))
        ordered == [i \in 1..Len(ks) |-> [key |-> ks[i], names |-> Lookup(by, ks[i])]]
    IN  SelectSeq(ordered, LAMBDA e : e.names # <<>>)

Returned(v) == [status |-> "returned", error |-> "", names |-> <<>>, value |-> v]
Raised(e, names) == [status |-> "raised", error |-> e, names |-> names, value |-> <<>>]
NotCalled == [status |-> "none", error |-> "", names |-> <<>>, value |-> <<>>]

(***************************************************************************)
(* SchoolMenu._parse_settings (the fields the fetch and the window use)    *)
(***************************************************************************)
\* settings.get(key, default) of a string-valued key
SettingOr(x, default) == IF x.t = "null" THEN default ELSE x.v

ParsedSettings(d, s, m, k) == [district_id |-> d, school_id |-> s, menu_name |-> m, days |-> k]
NoSettings == [districtId |-> JNull, schoolId |-> JNull, menuName |-> JNull, numDays |-> JNull]
NoCfg == ParsedSettings(<<>>, <<>>, <<>>, 0)
NoArgs == [district_id |-> <<>>, site_id |-> <<>>, menu_name |-> <<>>]

\* days: int(settings.get("numDays", 3)), 3 on failure or out of range
ParseDays(x) ==
    LET parsed == IF x.t = "null" THEN [ok |-> TRUE, v |-> DEFAULT_DAYS] ELSE ParseInt(x)
        days == IF parsed.ok THEN parsed.v ELSE DEFAULT_DAYS
    IN  IF MIN_DAYS <= days /\ days <= MAX_DAYS THEN days ELSE DEFAULT_DAYS

\* a plausible slip: an empty districtId is let through
ParseSettingsDistrictOptional(s) ==
    LET district_id == Strip(SettingOr(s.districtId, <<>>))
        school_id == Strip(SettingOr(s.schoolId, <<>>))
        menu_name == Strip(SettingOr(s.menuName, <<>>))
    IN  IF school_id = <<>> THEN [ok |-> FALSE, error |-> "schoolId is required", cfg |-> NoCfg]
        ELSE IF menu_name = <<>> THEN [ok |-> FALSE, error |-> "menuName is required", cfg |-> NoCfg]
        ELSE [ok |-> TRUE, error |-> "",
              cfg |-> ParsedSettings(district_id, school_id, menu_name, ParseDays(s.numDays))]

\* _parse_settings: the ParsedSettings, or the ValueError raised
ParseSettings(s) ==
    LET district_id == Strip(SettingOr(s.districtId, <<>>))
        school_id == Strip(SettingOr(s.schoolId, <<>>))
        menu_name == Strip(SettingOr(s.menuName, <<>>))
    IN  IF district_id = <<>> THEN [ok |-> FALSE, error |-> "districtId is required", cfg |-> NoCfg]
        ELSE IF school_id = <<>> THEN [ok |-> FALSE, error |-> "schoolId is required", cfg |-> NoCfg]
        ELSE IF menu_name = <<>> THEN [ok |-> FALSE, error |-> "menuName is required", cfg |-> NoCfg]
        ELSE [ok |-> TRUE, error |-> "",
              cfg |-> ParsedSettings(district_id, school_id, menu_name, ParseDays(s.numDays))]

(***************************************************************************)
(* SchoolMenu.generate_image: fallback and projection on the school days   *)
(***************************************************************************)
\* one read of date.today(): the source line that makes it and the date it gets
Read(line, t) == [line |-> line, date |-> t]

\* all_items of the except branch
FallbackItems(t) == <<[key |-> IsoFormat(t), names |-> <<NOT_AVAILABLE_TEXT>>]>>

\* `fetch_ok and d >= date.today()` is reached, and the clock read, only for a
\* day without fetched data after a fetch that succeeded
ReadsClock(items, ok, d) == ~HasKey(items, IsoFormat(d)) /\ ok

\* a plausible slip: the pending marker is used whether or not the fetch succeeded
SubsetValueAlwaysPending(items, ok, t, d) ==
    IF HasKey(items, IsoFormat(d)) THEN Lookup(items, IsoFormat(d))
    ELSE IF DateLE(t, d) THEN <<PENDING_TEXT>>
    ELSE <<>>

\* a plausible slip: d > date.today() for d >= date.today()
SubsetValueStrictlyFuture(items, ok, t, d) ==
    IF HasKey(items, IsoFormat(d)) THEN Lookup(items, IsoFormat(d))
    ELSE IF ok /\ ~DateLE(d, t) THEN <<PENDING_TEXT>>
    ELSE <<>>

\* the value stored in menu_subset for the target day d, t being date.today()
SubsetValue(items, ok, t, d) ==
    IF HasKey(items, IsoFormat(d)) THEN Lookup(items, IsoFormat(d))
    ELSE IF ok /\ DateLE(t, d) THEN <<PENDING_TEXT>>
    ELSE <<>>

\* a plausible slip: only the days that have fetched data get an entry
ProjectDaySkipsAbsent(subset, items, ok, t, d) ==
    IF HasKey(items, IsoFormat(d))
    THEN SetItem(subset, IsoFormat(d), Lookup(items, IsoFormat(d)))
    ELSE subset

\* one iteration of `for d in target_days`
ProjectDay(subset, items, ok, t, d) ==
    SetItem(subset, IsoFormat(d), SubsetValue(items, ok, t, d))

NoError == [kind |-> "none", message |-> ""]
Exception(k, m) == [kind |-> k, message |-> m]

(***************************************************************************)
(* Control: pc is the call stack, innermost frame last; <<>> when the      *)
(* outermost call has returned or raised.                                  *)
(***************************************************************************)
Top(stack) == stack[Len(stack)]
Pop(stack) == SubSeq(stack, 1, Len(stack) - 1)
SetTop(stack, f) == Append(Pop(stack), f)
At(f) == pc # <<>> /\ Top(pc) = f

SeqsUpTo(S, k) == UNION {[1..m -> S] : m \in 0..k}

Site(id) == [id |-> id, name |-> JStr(<<"s">>)]
MenuType(i, name) == [id |-> <<"t", Digits[i + 1]>>, name |-> name]

\* a provider list of menu types: the ids follow the position, the names are free
TypeList(names) == [i \in 1..Len(names) |-> MenuType(i, names[i])]

Query(kind, arg, month, year, resp) ==
    [kind |-> kind, arg |-> arg, month |-> month, year |-> year, response |-> resp]

\* number of raw items the monthly queries have returned so far
RECURSIVE ItemsReceived(_)
ItemsReceived(qs) ==
    IF qs = <<>> THEN 0
    ELSE (IF Head(qs).kind = "menu" THEN Len(Head(qs).response.data) ELSE 0)
             + ItemsReceived(Tail(qs))

\* the answers the provider may give: one of the fixed answers, or any list, up
\* to the longest it sends, of what it holds
MenuTypesAnswers ==
    provider.menuTypes.fixed \cup
    {Payload(TypeList(names)) : names \in SeqsUpTo(provider.menuTypes.names, provider.menuTypes.max)}

Min(a, b) == IF a <= b THEN a ELSE b

MenuAnswers ==
    provider.menu.fixed \cup
    {Payload(items) :
        items \in SeqsUpTo(provider.menu.items,
                           Min(provider.menu.max, provider.menu.capacity - ItemsReceived(queries)))}

\* number of monthly item queries issued so far (the position of the for loop)
MenuQueries == Len(SelectSeq(queries, LAMBDA q : q.kind = "menu"))

(***************************************************************************)
(* fetch_menu_items, one action per network round-trip                     *)
(***************************************************************************)
\* lines 115-116: the optional district validation
FetchEntry ==
    /\ At("fetch_menu_items")
    /\ \E resp \in (IF args.district_id = <<>> THEN {Payload(<<>>)} ELSE provider.sites) :
         LET asked == args.district_id # <<>>
             err == IF ~asked THEN ""
                    ELSE IF PostGraphqlError(resp) # "" THEN PostGraphqlError(resp)
                    ELSE ValidateSiteInDistrict(resp.data, args.site_id)
         IN  /\ queries' = IF asked
                           THEN Append(queries, Query("organization", args.district_id, -1, -1, resp))
                           ELSE queries
             /\ IF err # ""
                THEN fetched' = Raised(err, <<>>) /\ pc' = Pop(pc)
                ELSE fetched' = fetched /\ pc' = SetTop(pc, "menu_types")
    /\ UNCHANGED <<today, midnight, clock_reads, settings, cfg, args, provider,
                   menu_type_id, months_to_fetch, by_date, fetch_ok, all_items,
                   target_days, day_iter, menu_subset, rendered, raised, n, cur, out>>

\* lines 118-166: the menuTypes query, name resolution, months_to_fetch
QueryMenuTypes ==
    /\ At("menu_types")
    /\ \E resp \in MenuTypesAnswers :
         LET err == PostGraphqlError(resp)
             res == ResolveMenuType(args.menu_name, resp.data)
         IN  /\ queries' = Append(queries, Query("menuTypes", args.site_id, -1, -1, resp))
             /\ IF err # ""
                THEN /\ fetched' = Raised(err, <<>>)
                     /\ pc' = Pop(pc)
                     /\ UNCHANGED <<menu_type_id, months_to_fetch, by_date, clock_reads>>
                ELSE IF ~res.ok
                THEN /\ fetched' = Raised(res.error, res.names)
                     /\ pc' = Pop(pc)
                     /\ UNCHANGED <<menu_type_id, months_to_fetch, by_date, clock_reads>>
                ELSE /\ menu_type_id' = res.id
                     /\ months_to_fetch' = MonthsToFetch(today)
                     /\ clock_reads' = Append(clock_reads, Read(154, today))
                     /\ by_date' = <<>>
                     /\ pc' = SetTop(pc, "menu_loop")
                     /\ fetched' = fetched
    /\ UNCHANGED <<today, midnight, settings, cfg, args, provider, fetch_ok, all_items,
                   target_days, day_iter, menu_subset, rendered, raised, n, cur, out>>

\* lines 168-203: one iteration of the loop over months_to_fetch
QueryMenu ==
    /\ At("menu_loop")
    /\ MenuQueries < Len(months_to_fetch)
    /\ \E resp \in MenuAnswers :
         LET m_idx == months_to_fetch[MenuQueries + 1][1]
             year_val == months_to_fetch[MenuQueries + 1][2]
             err == PostGraphqlError(resp)
         IN  /\ queries' = Append(queries, Query("menu", menu_type_id, m_idx, year_val, resp))
             /\ IF err # ""
                THEN fetched' = Raised(err, <<>>) /\ pc' = Pop(pc) /\ by_date' = by_date
                ELSE /\ by_date' = ProcessItems(by_date, resp.data, m_idx, year_val)
                     /\ UNCHANGED <<fetched, pc>>
    /\ UNCHANGED <<today, midnight, clock_reads, settings, cfg, args, provider,
                   menu_type_id, months_to_fetch, fetch_ok, all_items, target_days,
                   day_iter, menu_subset, rendered, raised, n, cur, out>>

\* lines 205-211: ordering, dropping empty dates, return
FetchReturn ==
    /\ At("menu_loop")
    /\ MenuQueries = Len(months_to_fetch)
    /\ fetched' = Returned(FinishFetch(by_date))
    /\ pc' = Pop(pc)
    /\ UNCHANGED <<today, midnight, clock_reads, settings, cfg, args, provider,
                   queries, menu_type_id, months_to_fetch, by_date, fetch_ok, all_items,
                   target_days, day_iter, menu_subset, rendered, raised, n, cur, out>>

(***************************************************************************)
(* SchoolMenu.generate_image                                               *)
(***************************************************************************)
\* lines 242-256: _parse_settings, then the call of fetch_menu_items
ParseStep ==
    /\ pc = <<"generate_image">>
    /\ LET res == ParseSettings(settings)
       IN  IF res.ok
           THEN /\ cfg' = res.cfg
                /\ args' = [district_id |-> res.cfg.district_id,
                            site_id |-> res.cfg.school_id,
                            menu_name |-> res.cfg.menu_name]
                /\ fetch_ok' = TRUE
                /\ pc' = <<"fetch_call", "fetch_menu_items">>
                /\ raised' = raised
           ELSE /\ raised' = Exception("ValueError", res.error)
                /\ pc' = <<>>
                /\ UNCHANGED <<cfg, args, fetch_ok>>
    /\ UNCHANGED <<today, midnight, clock_reads, settings, provider, queries,
                   menu_type_id, months_to_fetch, by_date, fetched, all_items,
                   target_days, day_iter, menu_subset, rendered, n, cur, out>>

\* a plausible slip: the except clause names the GraphQL and transport errors only,
\* so a ValueError of the fetch leaves generate_image
HandleFetchNarrowCatch ==
    /\ pc = <<"fetch_call">>
    /\ IF fetched.status = "raised" /\ fetched.error \notin {"TransportError", "GraphQLError"}
       THEN /\ raised' = Exception("ValueError", fetched.error)
            /\ pc' = <<>>
            /\ UNCHANGED <<fetch_ok, all_items, clock_reads>>
       ELSE /\ fetch_ok' = (fetched.status = "returned")
            /\ IF fetched.status = "returned"
               THEN all_items' = fetched.value /\ clock_reads' = clock_reads
               ELSE /\ all_items' = FallbackItems(today)
                    /\ clock_reads' = Append(clock_reads, Read(263, today))
            /\ pc' = <<"select_days">>
            /\ raised' = raised
    /\ UNCHANGED <<today, midnight, settings, cfg, args, provider, queries,
                   menu_type_id, months_to_fetch, by_date, fetched, target_days,
                   day_iter, menu_subset, rendered, n, cur, out>>

\* lines 257-264: the outcome of the try, the fallback of the except branch
HandleFetch ==
    /\ pc = <<"fetch_call">>
    /\ fetch_ok' = (fetched.status = "returned")
    /\ IF fetched.status = "returned"
       THEN all_items' = fetched.value /\ clock_reads' = clock_reads
       ELSE /\ all_items' = FallbackItems(today)
            /\ clock_reads' = Append(clock_reads, Read(263, today))
    /\ pc' = <<"select_days">>
    /\ UNCHANGED <<today, midnight, settings, cfg, args, provider, queries,
                   menu_type_id, months_to_fetch, by_date, fetched, target_days,
                   day_iter, menu_subset, rendered, raised, n, cur, out>>

\* lines 267-268 with 372-379: target_days = self._next_school_days(cfg.days)
SelectDays ==
    /\ pc = <<"select_days">>
    /\ target_days' = NextSchoolDays(today, cfg.days)
    /\ clock_reads' = Append(clock_reads, Read(374, today))
    /\ day_iter' = 0
    /\ menu_subset' = <<>>
    /\ pc' = <<"project">>
    /\ UNCHANGED <<today, midnight, settings, cfg, args, provider, queries,
                   menu_type_id, months_to_fetch, by_date, fetched, fetch_ok, all_items,
                   rendered, raised, n, cur, out>>

\* lines 269-278: one iteration of the loop over target_days
ProjectStep ==
    /\ pc = <<"project">>
    /\ day_iter < Len(target_days)
    /\ LET d == target_days[day_iter + 1]
       IN  /\ menu_subset' = ProjectDay(menu_subset, all_items, fetch_ok, today, d)
           /\ clock_reads' = IF ReadsClock(all_items, fetch_ok, d)
                             THEN Append(clock_reads, Read(275, today))
                             ELSE clock_reads
    /\ day_iter' = day_iter + 1
    /\ UNCHANGED <<pc, today, midnight, settings, cfg, args, provider, queries,
                   menu_type_id, months_to_fetch, by_date, fetched, fetch_ok, all_items,
                   target_days, rendered, raised, n, cur, out>>

\* lines 280-319: template parameters, render_image, the test of its result
Render ==
    /\ pc = <<"project">>
    /\ day_iter = Len(target_days)
    /\ rendered' = Append(rendered, menu_subset)
    /\ clock_reads' = Append(clock_reads, Read(310, today))
    /\ \E image \in BOOLEAN :
         raised' = IF image THEN raised
                   ELSE Exception("RuntimeError", "Failed to render SchoolMenu image.")
    /\ pc' = <<>>
    /\ UNCHANGED <<today, midnight, settings, cfg, args, provider, queries,
                   menu_type_id, months_to_fetch, by_date, fetched, fetch_ok, all_items,
                   target_days, day_iter, menu_subset, n, cur, out>>

\* the wall clock passes midnight while the request runs; a request, a handful
\* of round-trips of timeout=30 (line 70) and one rendering, sees it at most once
Midnight ==
    /\ pc # <<>>
    /\ ~midnight
    /\ today' = AddDay(today)
    /\ midnight' = TRUE
    /\ UNCHANGED <<pc, clock_reads, settings, cfg, args, provider, queries,
                   menu_type_id, months_to_fetch, by_date, fetched, fetch_ok, all_items,
                   target_days, day_iter, menu_subset, rendered, raised, n, cur, out>>

(***************************************************************************)
(* SchoolMenu._next_school_days, one action per loop iteration             *)
(***************************************************************************)
DaysLoopStep ==
    /\ pc = <<"_next_school_days">>
    /\ Len(out) < n
    /\ LET st == LoopBody([cur |-> cur, out |-> out])
       IN  cur' = st.cur /\ out' = st.out
    /\ UNCHANGED <<pc, today, midnight, clock_reads, settings, cfg, args, provider,
                   queries, menu_type_id, months_to_fetch, by_date, fetched, fetch_ok,
                   all_items, target_days, day_iter, menu_subset, rendered, raised, n>>

DaysReturn ==
    /\ pc = <<"_next_school_days">>
    /\ ~(Len(out) < n)
    /\ pc' = <<>>
    /\ UNCHANGED <<today, midnight, clock_reads, settings, cfg, args, provider,
                   queries, menu_type_id, months_to_fetch, by_date, fetched, fetch_ok,
                   all_items, target_days, day_iter, menu_subset, rendered, raised, n,
                   cur, out>>

(***************************************************************************)
(* Inputs: what the caller passes and what the provider may answer.        *)
(***************************************************************************)
\* a raw item dated d as the provider sends it (0-indexed month)
ItemOn(d, name) ==
    [day |-> JInt(d.day), month |-> JInt(d.month - 1), year |-> JInt(d.year), name |-> JStr(name)]

Pizza == <<"P","i","z","z","a">>
Taco == <<"T","a","c","o">>
GardenBarSpaced == <<" ","G","a","r","d","e","n"," "," ","B","A","R",":"," ">>
NonFatMilkSpaced == <<" ","N","o","n","-","F","a","t","\t"," ","M","I","L","K">>
GardenBarNoColon == <<"G","a","r","d","e","n"," ","B","a","r">>

SiteAnswers ==
    { TransportFailure, GraphQLErrors,
      Payload(<<Site(<<"8">>), Site(<<"9">>)>>), Payload(<<Site(<<"9">>)>>) }

\* menu type names of the provider: "ab", " AB", "ab c", "Ab \t c", "cab", no name key
TypeNames ==
    { JStr(<<"a","b">>), JStr(<<" ","A","B">>), JStr(<<"a","b"," ","c">>),
      JStr(<<"A","b"," ","\t"," ","c">>), JStr(<<"c","a","b">>), JNull }

\* menu names asked for: "ab", "ab  C", "c", "", "ca", "x"
MenuNames ==
    { <<"a","b">>, <<"a","b"," "," ","C">>, <<"c">>, <<>>, <<"c","a">>, <<"x">> }

\* answers to the menuTypes query that between them reach every branch of the resolution
FewTypeAnswers ==
    { TransportFailure,
      Payload(<<>>),
      Payload(TypeList(<<JStr(<<" ","A","B">>), JStr(<<"c","a","b">>)>>)),
      Payload(TypeList(<<JStr(<<"a","b">>), JStr(<<" ","A","B">>)>>)),
      Payload(TypeList(<<JStr(<<"a","b"," ","c">>)>>)),
      Payload(TypeList(<<JStr(<<"a","b"," ","c">>), JStr(<<"c","a","b">>)>>)),
      Payload(TypeList(<<JStr(<<"c">>)>>)) }

\* raw items around today: a dish today, boilerplate today, a dish on the next day
NearItems(t) ==
    { ItemOn(t, Pizza), ItemOn(t, GardenBarSpaced), ItemOn(AddDay(t), Taco) }

\* raw items as loosely typed as the provider may send them: a plain dish, a dish
\* on the next day, boilerplate under a numeric string day and a zero year, a dish
\* with its own month and year, and three malformed entries
RawItems ==
    { [day |-> JInt(9), month |-> JNull, year |-> JNull, name |-> JStr(Pizza)],
      [day |-> JInt(10), month |-> JNull, year |-> JNull, name |-> JStr(Taco)],
      [day |-> JStr(<<"1","0">>), month |-> JNull, year |-> JInt(0), name |-> JStr(NonFatMilkSpaced)],
      [day |-> JInt(9), month |-> JInt(0), year |-> JInt(2025), name |-> JStr(GardenBarNoColon)],
      [day |-> JNull, month |-> JNull, year |-> JNull, name |-> JStr(Pizza)],
      [day |-> JStr(<<"x">>), month |-> JInt(0), year |-> JNull, name |-> JStr(Taco)],
      [day |-> JInt(9), month |-> JNull, year |-> JNull, name |-> JNull] }

FewTypes == [fixed |-> FewTypeAnswers, names |-> {}, max |-> 0]

PipelineProvider(t) ==
    [sites |-> SiteAnswers,
     menuTypes |-> FewTypes,
     menu |-> [fixed |-> {GraphQLErrors}, items |-> NearItems(t), max |-> MaxNearItems,
               capacity |-> MaxNearItems + 1]]

\* settings mappings: each key missing, blank, or set
SettingsPool ==
    [districtId : {JNull, JStr(<<" ">>), JStr(<<" ","7"," ">>)},
     schoolId : {JNull, JStr(<<"\t">>), JStr(<<"8">>)},
     menuName : {JStr(<<>>), JStr(<<" ","a","b"," ">>)},
     numDays : {JNull, JStr(<<"0">>), JStr(<<"1">>), JStr(<<"2">>), JStr(<<" ","4">>),
                JStr(<<"5">>), JStr(<<"6">>), JStr(<<"a","b","c">>)}]

\* days of December 2024 from the 17th on: every weekday, days up to and after the 20th
PipelineDates ==
    {d \in Dates : d.year = 2024 /\ d.month = 12 /\ d.day > 16 /\ d.day <= 16 + PipelineSpan}

Idle ==
    /\ midnight = FALSE
    /\ clock_reads = <<>>
    /\ cfg = NoCfg
    /\ queries = <<>>
    /\ menu_type_id = <<>>
    /\ months_to_fetch = <<>>
    /\ by_date = <<>>
    /\ fetched = NotCalled
    /\ fetch_ok = TRUE
    /\ all_items = <<>>
    /\ target_days = <<>>
    /\ day_iter = 0
    /\ menu_subset = <<>>
    /\ rendered = <<>>
    /\ raised = NoError

(***************************************************************************)
(* Spec: a render request, generate_image(settings, device_config).        *)
(***************************************************************************)
Init ==
    /\ pc = <<"generate_image">>
    /\ today \in PipelineDates
    /\ settings \in SettingsPool
    /\ args = NoArgs
    /\ provider = PipelineProvider(today)
    /\ Idle
    /\ n = 0 /\ cur = today /\ out = <<>>

Next ==
    \/ ParseStep
    \/ FetchEntry
    \/ QueryMenuTypes
    \/ QueryMenu
    \/ FetchReturn
    \/ HandleFetch
    \/ SelectDays
    \/ ProjectStep
    \/ Render
    \/ Midnight

Spec == Init /\ [][Next]_vars

(***************************************************************************)
(* Direct calls of fetch_menu_items.                                       *)
(***************************************************************************)
NextFetch ==
    \/ FetchEntry
    \/ QueryMenuTypes
    \/ QueryMenu
    \/ FetchReturn

\* any day of the year, with or without a district
InitFetch ==
    /\ pc = <<"fetch_menu_items">>
    /\ today \in Dates
    /\ settings = NoSettings
    /\ args \in [district_id : {<<>>, <<"7">>}, site_id : {<<"8">>}, menu_name : {<<"a","b">>}]
    /\ provider = [sites |-> SiteAnswers,
                   menuTypes |-> FewTypes,
                   menu |-> [fixed |-> {GraphQLErrors}, items |-> {ItemOn(today, Pizza)},
                             max |-> 1, capacity |-> 2]]
    /\ Idle
    /\ n = 0 /\ cur = today /\ out = <<>>

SpecFetch == InitFetch /\ [][NextFetch]_vars

\* every menu name against every list of menu types
InitResolve ==
    /\ pc = <<"fetch_menu_items">>
    /\ today = MkDate(2024, 3, 14)
    /\ settings = NoSettings
    /\ args \in [district_id : {<<>>}, site_id : {<<"8">>}, menu_name : MenuNames]
    /\ provider = [sites |-> SiteAnswers,
                   menuTypes |-> [fixed |-> {}, names |-> TypeNames, max |-> MaxTypes],
                   menu |-> [fixed |-> {}, items |-> {}, max |-> 0, capacity |-> 0]]
    /\ Idle
    /\ n = 0 /\ cur = today /\ out = <<>>

SpecResolve == InitResolve /\ [][NextFetch]_vars

\* every list of raw items, for one and for two monthly queries
InitItems ==
    /\ pc = <<"fetch_menu_items">>
    /\ today \in {MkDate(2024, 11, 8), MkDate(2024, 12, 25)}
    /\ settings = NoSettings
    /\ args \in [district_id : {<<>>}, site_id : {<<"8">>}, menu_name : {<<"a","b">>}]
    /\ provider = [sites |-> SiteAnswers,
                   menuTypes |-> [fixed |-> {Payload(TypeList(<<JStr(<<"a","b">>)>>))},
                                  names |-> {}, max |-> 0],
                   menu |-> [fixed |-> {}, items |-> RawItems, max |-> MaxItems,
                             capacity |-> MaxItems]]
    /\ Idle
    /\ n = 0 /\ cur = today /\ out = <<>>

SpecItems == InitItems /\ [][NextFetch]_vars

(***************************************************************************)
(* Calls of _next_school_days.                                             *)
(***************************************************************************)
InitDays ==
    /\ pc = <<"_next_school_days">>
    /\ today \in Dates
    /\ n \in MIN_DAYS..MAX_DAYS
    /\ cur = today
    /\ out = <<>>
    /\ settings = NoSettings
    /\ args = NoArgs
    /\ provider = [sites |-> {},
                   menuTypes |-> [fixed |-> {}, names |-> {}, max |-> 0],
                   menu |-> [fixed |-> {}, items |-> {}, max |-> 0, capacity |-> 0]]
    /\ Idle

NextDays ==
    \/ DaysLoopStep
    \/ DaysReturn

\* the loop is the only thing running: it takes a step whenever it can
SpecDays == InitDays /\ [][NextDays]_vars /\ WF_vars(NextDays)

(***************************************************************************)
(* Properties.                                                             *)
(***************************************************************************)
Range(s) == {s[i] : i \in 1..Len(s)}
WeekdayOfOrdinal(o) == (o + 6) % 7
IsCalendarDate(d) ==
    d.month \in 1..12 /\ d.day \in 1..DaysInMonth(d.year, d.month)

\* ordinals of the first k Monday-to-Friday days at or after t
FirstWeekdayOrdinals(t, k) ==
    LET week == {o \in Ordinal(t)..(Ordinal(t) + 6) : WeekdayOfOrdinal(o) < 5}
    IN  {o \in week : Cardinality({p \in week : p <= o}) <= k}

\* the value returned by _next_school_days, once it has returned
C7_Result ==
    (pc = <<>>) =>
        /\ Len(out) = n
        /\ \A i \in 1..Len(out) :
               /\ IsCalendarDate(out[i])
               /\ Weekday(out[i]) \in 0..4
               /\ Ordinal(out[i]) >= Ordinal(today)
        /\ \A i \in 1..(Len(out) - 1) : Ordinal(out[i]) < Ordinal(out[i + 1])
        /\ {Ordinal(d) : d \in Range(out)} = FirstWeekdayOrdinals(today, n)
        /\ (Weekday(today) < 5 => out[1] = today)
        /\ (Weekday(today) = 5 /\ n = 5 =>
               /\ [i \in 1..5 |-> Ordinal(out[i])] = [i \in 1..5 |-> Ordinal(today) + 1 + i]
               /\ [i \in 1..5 |-> Weekday(out[i])] = <<0, 1, 2, 3, 4>>)

\* C7: for every start date and every n in 1..5, _next_school_days(n)
\* terminates and returns exactly n strictly increasing Monday-Friday dates,
\* all on or after today, that are precisely the first n weekdays at or after
\* today (today included when it is a weekday); n = 5 from a Saturday gives
\* the following Monday through Friday.
C7_NextSchoolDays == []C7_Result /\ <>(pc = <<>>)

\* a call with n = 5 made on a Saturday has returned the next Monday to Friday
C7_Witness ==
    /\ pc = <<>>
    /\ n = 5
    /\ Weekday(today) = 5
    /\ Len(out) = 5
    /\ Weekday(out[1]) = 0
    /\ Ordinal(out[5]) = Ordinal(today) + 6

IsPrefix(a, b) == Len(a) <= Len(b) /\ a = SubSeq(b, 1, Len(a))

\* the monthly item queries issued so far, as (0-indexed month, year) pairs
MenuQueryMonths ==
    LET mq == SelectSeq(queries, LAMBDA q : q.kind = "menu")
    IN  [i \in 1..Len(mq) |-> <<mq[i].month, mq[i].year>>]

\* the month after (month, year), 1-indexed
FollowingMonth(month, year) ==
    IF month = 12 THEN <<1, year + 1>> ELSE <<month + 1, year>>

\* the item queries a fetch made on day t is to issue, months 0-indexed
ExpectedMonths(t) ==
    LET following == FollowingMonth(t.month, t.year)
    IN  IF t.day > 20
        THEN << <<t.month - 1, t.year>>, <<following[1] - 1, following[2]>> >>
        ELSE << <<t.month - 1, t.year>> >>

ExactMatches(menu_name, types) ==
    {i \in 1..Len(types) : NormalizeName(TypeName(types[i])) = NormalizeName(menu_name)}
PartialMatches(menu_name, types) ==
    {i \in 1..Len(types) :
        Contains(NormalizeName(menu_name), NormalizeName(TypeName(types[i])))}

\* whether the name resolves against the list: one exact match, or none and one partial
Resolvable(menu_name, types) ==
    \/ Cardinality(ExactMatches(menu_name, types)) = 1
    \/ /\ ExactMatches(menu_name, types) = {}
       /\ Cardinality(PartialMatches(menu_name, types)) = 1

\* whether the round-trip q makes the fetch fail
QueryFails(q) ==
    \/ q.response.status # "data"
    \/ /\ q.kind = "organization"
       /\ \A i \in 1..Len(q.response.data) : q.response.data[i].id # args.site_id
    \/ /\ q.kind = "menuTypes"
       /\ ~Resolvable(args.menu_name, q.response.data)

\* the kinds of round-trip a complete fetch makes, in order
ExpectedChain ==
    (IF args.district_id # <<>> THEN <<"organization">> ELSE <<>>)
        \o <<"menuTypes">>
        \o [i \in 1..Len(ExpectedMonths(today)) |-> "menu"]

\* C10: the round-trips of one fetch_menu_items call form a sequential chain:
\* the district validation query first and only when district_id is non-empty,
\* then exactly one menu-types query, then one or two monthly item queries,
\* at most 4 in all; a failure at any step aborts the fetch: no later query is
\* issued and no mapping, partial or not, is returned.
C10_SequentialChain ==
    /\ IsPrefix([i \in 1..Len(queries) |-> queries[i].kind], ExpectedChain)
    /\ Len(queries) <= 4
    /\ \A i \in 1..Len(queries) :
           (queries[i].kind = "organization") => (i = 1 /\ args.district_id # <<>>)
    /\ \A i \in 1..(Len(queries) - 1) : ~QueryFails(queries[i])
    /\ (fetched.status = "raised" <=> (queries # <<>> /\ QueryFails(queries[Len(queries)])))
    /\ (fetched.status = "raised" => fetched.value = <<>> /\ pc = <<>>)
    /\ (fetched.status = "returned" =>
           /\ [i \in 1..Len(queries) |-> queries[i].kind] = ExpectedChain
           /\ \A i \in 1..Len(queries) : ~QueryFails(queries[i]))

\* a fetch with a district was aborted by its third round-trip, the first item query
C10_Witness ==
    /\ args.district_id # <<>>
    /\ today.day > 20
    /\ fetched.status = "raised"
    /\ pc = <<>>
    /\ [i \in 1..Len(queries) |-> queries[i].kind] = <<"organization", "menuTypes", "menu">>

\* the answer to the menuTypes query of this fetch
MenuTypesAnswer ==
    LET mt == SelectSeq(queries, LAMBDA q : q.kind = "menuTypes")
    IN  mt[1].response.data

\* the names of the menu types at the positions in idx, in list order
NamesAt(types, idx) ==
    LET AtIdx(i) == i \in idx
        RECURSIVE Pick(_)
        Pick(i) == IF i > Len(types) THEN <<>>
                   ELSE (IF AtIdx(i) THEN <<types[i].name>> ELSE <<>>) \o Pick(i + 1)
    IN  Pick(1)

\* C6: menu-type resolution follows the decision table, whatever the order of
\* the candidates: no candidate -> not-found failure; exactly one exact
\* normalized match -> its id, even if others contain the target; two or more
\* exact matches -> ambiguity failure; no exact and exactly one containing
\* match -> its id; no exact and no containing match -> not-found failure
\* listing all names; no exact and several containing -> ambiguity failure
\* listing the matching names.
C6_ResolutionTable ==
    (\E i \in 1..Len(queries) : queries[i].kind = "menuTypes" /\ queries[i].response.status = "data") =>
        LET types == MenuTypesAnswer
            exact == ExactMatches(args.menu_name, types)
            partial == PartialMatches(args.menu_name, types)
            failed == fetched.status = "raised"
            Permuted(p) == [i \in 1..Len(types) |-> types[p[i]]]
        IN  /\ (types = <<>> => failed /\ fetched.error = "NoMenuTypes")
            /\ (Cardinality(exact) = 1 =>
                    ~failed /\ menu_type_id = types[CHOOSE i \in exact : TRUE].id)
            /\ (Cardinality(exact) >= 2 => failed /\ fetched.error = "AmbiguousExact")
            /\ (exact = {} /\ Cardinality(partial) = 1 =>
                    ~failed /\ menu_type_id = types[CHOOSE i \in partial : TRUE].id)
            /\ (types # <<>> /\ exact = {} /\ partial = {} =>
                    /\ failed
                    /\ fetched.error = "NotFound"
                    /\ fetched.names = [i \in 1..Len(types) |-> types[i].name])
            /\ (exact = {} /\ Cardinality(partial) >= 2 =>
                    /\ failed
                    /\ fetched.error = "AmbiguousPartial"
                    /\ fetched.names = NamesAt(types, partial))
            /\ \A p \in Permutations(1..Len(types)) :
                   LET r == ResolveMenuType(args.menu_name, Permuted(p))
                   IN  /\ r.ok = ~failed
                       /\ (r.ok => r.id = menu_type_id)
                       /\ (~r.ok => r.error = fetched.error /\ Range(r.names) = Range(fetched.names))

\* "ab" asked of ["cab", " AB", "ab c"]: the one exact match, the second, is chosen
\* although the two others contain the name
C6_Witness ==
    /\ args.menu_name = <<"a","b">>
    /\ Len(queries) = 1
    /\ [i \in 1..Len(MenuTypesAnswer) |-> MenuTypesAnswer[i].name]
           = <<JStr(<<"c","a","b">>), JStr(<<" ","A","B">>), JStr(<<"a","b"," ","c">>)>>
    /\ fetched.status = "none"
    /\ menu_type_id = <<"t","2">>

\* the raw items of the monthly queries in the order the provider returned them,
\* each with the month and year of the query that returned it
RECURSIVE RawItemsOf(_)
RawItemsOf(qs) ==
    IF qs = <<>> THEN <<>>
    ELSE LET q == Head(qs)
             own == IF q.kind = "menu" /\ q.response.status = "data"
                    THEN [i \in 1..Len(q.response.data) |->
                            [item |-> q.response.data[i], month |-> q.month, year |-> q.year]]
                    ELSE <<>>
         IN  own \o RawItemsOf(Tail(qs))

\* the words of a name, lower-cased: two names are equal once trimmed,
\* whitespace-collapsed and lower-cased exactly when they have the same words
RECURSIVE Words(_)
Words(s) ==
    LET rest == LStrip(s)
        len == IF \E i \in 1..Len(rest) : rest[i] \in Whitespace
               THEN (CHOOSE i \in 1..Len(rest) :
                        rest[i] \in Whitespace /\ \A j \in 1..(i - 1) : rest[j] \notin Whitespace) - 1
               ELSE Len(rest)
    IN  IF rest = <<>> THEN <<>>
        ELSE <<Lower(SubSeq(rest, 1, len))>> \o Words(SubSeq(rest, len + 1, Len(rest)))

BoilerplateWords == {Words(b) : b \in COMMON_MENU_ITEM_FILTER_SOURCE}

\* a raw item survives when its day is a number, it has a name, and the name
\* trimmed, whitespace-collapsed and lower-cased is no boilerplate entry
Survives(r) ==
    /\ \/ r.item.day.t = "int"
       \/ r.item.day.t = "str" /\ ParseIntStr(r.item.day.v).ok
    /\ r.item.name.t = "str"
    /\ r.item.name.v # <<>>
    /\ Words(r.item.name.v) \notin BoilerplateWords

\* the calendar fields <<year, month, day>> a raw item stands for
ItemTriple(r) ==
    << IF r.item.year.t = "int" /\ r.item.year.v # 0 THEN r.item.year.v ELSE r.year,
       IF r.item.month.t = "int" THEN r.item.month.v + 1 ELSE r.month + 1,
       IF r.item.day.t = "int" THEN r.item.day.v ELSE ParseIntStr(r.item.day.v).v >>

RECURSIVE SplitOnDash(_)
SplitOnDash(s) ==
    IF \A i \in 1..Len(s) : s[i] # "-" THEN <<s>>
    ELSE LET at == CHOOSE i \in 1..Len(s) : s[i] = "-" /\ \A j \in 1..(i - 1) : s[j] # "-"
         IN  <<SubSeq(s, 1, at - 1)>> \o SplitOnDash(SubSeq(s, at + 1, Len(s)))

\* the <<year, month, day>> a date key reads as
KeyTriple(key) ==
    LET parts == SplitOnDash(key)
    IN  [i \in 1..Len(parts) |-> DigitsValue(parts[i])]

TripleLess(a, b) ==
    \/ a[1] < b[1]
    \/ a[1] = b[1] /\ a[2] < b[2]
    \/ a[1] = b[1] /\ a[2] = b[2] /\ a[3] < b[3]

\* the names of the surviving raw items dated tr, in provider order
RECURSIVE SurvivorsOn(_, _)
SurvivorsOn(raw, tr) ==
    IF raw = <<>> THEN <<>>
    ELSE (IF Survives(Head(raw)) /\ ItemTriple(Head(raw)) = tr
          THEN <<Head(raw).item.name.v>> ELSE <<>>) \o SurvivorsOn(Tail(raw), tr)

\* C8: the mapping fetch_menu_items returns has unique date keys in ascending
\* date order, no key with an empty list (a date whose items were all filtered
\* or skipped is absent), no item whose normalized name is a normalized
\* boilerplate entry, and under each date the surviving items' original names
\* in provider-returned order.
C8_ReturnedMapping ==
    (fetched.status = "returned") =>
        LET v == fetched.value
            raw == RawItemsOf(queries)
        IN  /\ \A i \in 1..Len(v) : Len(KeyTriple(v[i].key)) = 3
            /\ \A i, j \in 1..Len(v) :
                   i < j => TripleLess(KeyTriple(v[i].key), KeyTriple(v[j].key))
            /\ \A i \in 1..Len(v) : v[i].names # <<>>
            /\ \A i \in 1..Len(v) : \A k \in 1..Len(v[i].names) :
                   Words(v[i].names[k]) \notin BoilerplateWords
            /\ {KeyTriple(v[i].key) : i \in 1..Len(v)}
                   = {ItemTriple(raw[i]) : i \in {k \in 1..Len(raw) : Survives(raw[k])}}
            /\ \A i \in 1..Len(v) : v[i].names = SurvivorsOn(raw, KeyTriple(v[i].key))

\* on 25 December the provider returned the 10th before the 9th for December and
\* boilerplate alone for a January date: the mapping has the two December dates in order
C8_Witness ==
    /\ fetched.status = "returned"
    /\ today = MkDate(2024, 12, 25)
    /\ Len(by_date) = 2
    /\ by_date[1].key = <<"2","0","2","4","-","1","2","-","1","0">>
    /\ [i \in 1..Len(fetched.value) |-> KeyTriple(fetched.value[i].key)]
           = << <<2024, 12, 9>>, <<2024, 12, 10>> >>
    /\ \E i \in 1..Len(RawItemsOf(queries)) :
           /\ RawItemsOf(queries)[i].item.name = JStr(NonFatMilkSpaced)
           /\ ItemTriple(RawItemsOf(queries)[i]) = <<2025, 1, 10>>

\* the menu_data mapping handed to the renderer
MenuData == rendered[1]

\* the school days generate_image selects
SelectedDays == target_days

\* the dates that the reads of date.today() made at a source line got, in order
ReadsAt(line) ==
    LET at == SelectSeq(clock_reads, LAMBDA r : r.line = line)
    IN  [i \in 1..Len(at) |-> at[i].date]

\* the date on which the failure of the fetch was handled (line 263)
FailureDay == ReadsAt(263)[1]

\* the date from which the school days were selected (line 374)
SelectionDay == ReadsAt(374)[1]

NotYetPublished == <<"N","o","t"," ","y","e","t"," ","p","u","b","l","i","s","h","e","d">>
MenuNotAvailable == <<"M","e","n","u"," ","n","o","t"," ","a","v","a","i","l","a","b","l","e">>

\* the first k Monday-to-Friday dates at or after t, by ordinal arithmetic
ExpectedSchoolDays(t, k) ==
    LET first == Ordinal(t)
        offsets == {j \in 0..6 : WeekdayOfOrdinal(first + j) < 5}
        Rank(j) == Cardinality({e \in offsets : e <= j})
    IN  [i \in 1..k |-> AddDays(t, CHOOSE j \in offsets : Rank(j) = i)]

\* the statement of C1 as claimed: after a failed fetch every selected school
\* day maps to an empty list
C1_FailedFetchAllEmpty ==
    (rendered # <<>> /\ fetched.status = "raised") =>
        \A i \in 1..Len(SelectedDays) :
            /\ HasKey(MenuData, IsoFormat(SelectedDays[i]))
            /\ Lookup(MenuData, IsoFormat(SelectedDays[i])) = <<>>

\* C1 (amended): whenever fetch_menu_items fails, every selected school day
\* maps to an empty list in the menu_data handed to the renderer, except the
\* date on which the failure was handled (today), which maps to the
\* single-element list ["Menu not available"] when it is among the selected
\* days, as it is on a weekday unless midnight passes before the days are
\* selected; for every today and days in 1..5.
C1_FailedFetchEmptyButToday ==
    (rendered # <<>> /\ fetched.status = "raised") =>
        /\ \A i \in 1..Len(SelectedDays) :
               /\ HasKey(MenuData, IsoFormat(SelectedDays[i]))
               /\ Lookup(MenuData, IsoFormat(SelectedDays[i])) =
                      IF SelectedDays[i] = FailureDay THEN <<MenuNotAvailable>> ELSE <<>>
        /\ (WeekdayOfOrdinal(Ordinal(FailureDay)) < 5 /\ SelectionDay = FailureDay =>
               /\ HasKey(MenuData, IsoFormat(FailureDay))
               /\ Lookup(MenuData, IsoFormat(FailureDay)) = <<MenuNotAvailable>>)

\* a failed fetch on a weekday, five days shown: today carries the fallback text,
\* the four other days are empty
C1_Witness ==
    /\ rendered # <<>>
    /\ fetched.status = "raised"
    /\ Weekday(FailureDay) < 5
    /\ cfg.days = 5
    /\ [i \in 1..Len(MenuData) |-> MenuData[i].names] = <<<<MenuNotAvailable>>, <<>>, <<>>, <<>>, <<>>>>

\* a settings value that is missing or empty once trimmed
Blank(x) == x.t = "null" \/ \A i \in 1..Len(x.v) : x.v[i] \in Whitespace

ParseFailed == raised.kind = "ValueError"

\* the statement of C2 as claimed: parsing fails only for a blank schoolId or
\* menuName, and a blank districtId parses to district_id = ""
C2_DistrictOptional ==
    (pc # <<"generate_image">>) =>
        /\ (ParseFailed <=> (Blank(settings.schoolId) \/ Blank(settings.menuName)))
        /\ (~ParseFailed /\ Blank(settings.districtId) => cfg.district_id = <<>>)

\* the value of a setting once trimmed: no whitespace at either end, and the
\* raw value is it with whitespace around
Trimmed(x, raw) ==
    /\ x # <<>>
    /\ x[1] \notin Whitespace /\ x[Len(x)] \notin Whitespace
    /\ \E i \in 0..(Len(raw) - Len(x)) :
           /\ SubSeq(raw, i + 1, i + Len(x)) = x
           /\ \A j \in (1..i) \cup ((i + Len(x) + 1)..Len(raw)) : raw[j] \in Whitespace

\* C2 (amended): _parse_settings treats districtId, schoolId and menuName as
\* all mandatory: it fails exactly when one of the three is missing or empty
\* after trimming, a missing or empty districtId failing first with
\* "districtId is required"; otherwise the three parse to their trimmed values.
C2_ThreeRequired ==
    (pc # <<"generate_image">>) =>
        /\ (ParseFailed <=>
               (Blank(settings.districtId) \/ Blank(settings.schoolId) \/ Blank(settings.menuName)))
        /\ (Blank(settings.districtId) => raised = Exception("ValueError", "districtId is required"))
        /\ (~ParseFailed =>
               /\ Trimmed(cfg.district_id, settings.districtId.v)
               /\ Trimmed(cfg.school_id, settings.schoolId.v)
               /\ Trimmed(cfg.menu_name, settings.menuName.v))

\* settings without districtId but with schoolId and menuName were refused
C2_Witness ==
    /\ settings.districtId = JNull
    /\ ~Blank(settings.schoolId)
    /\ ~Blank(settings.menuName)
    /\ pc = <<>>
    /\ raised = Exception("ValueError", "districtId is required")

\* the shape of menu_data: one entry per school day, in order, keyed by ISO date
HasSchoolDayKeys(md) ==
    /\ cfg.days \in 1..5
    /\ Len(md) = cfg.days
    /\ LET expected == ExpectedSchoolDays(SelectionDay, cfg.days)
           selected == SelectedDays
           keys == [i \in 1..Len(md) |-> md[i].key]
       IN  /\ keys = [i \in 1..cfg.days |-> IsoFormat(expected[i])]
           /\ keys = [i \in 1..Len(selected) |-> IsoFormat(selected[i])]

\* the values C3 allows for an entry: the fetched list of that date, the
\* pending placeholder, the empty list
AllowedValues(key) ==
    {<<NotYetPublished>>, <<>>} \cup
    (IF fetched.status = "returned" /\ HasKey(fetched.value, key)
     THEN {Lookup(fetched.value, key)} ELSE {})

\* the statement of C3 as claimed
C3_SubsetShape ==
    (rendered # <<>>) =>
        /\ HasSchoolDayKeys(MenuData)
        /\ \A i \in 1..Len(MenuData) : MenuData[i].names \in AllowedValues(MenuData[i].key)

\* C3 (amended): for every outcome of the fetch and every days in 1..5,
\* menu_data has exactly days entries, its keys are the ISO dates of the
\* school days of _next_school_days(days), none missing and none extra, and
\* every value is the fetched item list of that date, the single-element
\* pending placeholder, an empty list, or - after a failed fetch, under the
\* date on which the failure was handled (today) - the single-element list
\* ["Menu not available"].
C3_SubsetShapeWithFallback ==
    (rendered # <<>>) =>
        /\ HasSchoolDayKeys(MenuData)
        /\ \A i \in 1..Len(MenuData) :
               \/ MenuData[i].names \in AllowedValues(MenuData[i].key)
               \/ /\ fetched.status = "raised"
                  /\ MenuData[i].key = IsoFormat(FailureDay)
                  /\ MenuData[i].names = <<MenuNotAvailable>>

\* five days shown after a fetch that returned a dish for the first day only:
\* fetched items under the first date, the pending placeholder under the others
C3_Witness ==
    /\ rendered # <<>>
    /\ fetched.status = "returned"
    /\ cfg.days = 5
    /\ Weekday(SelectionDay) = 0
    /\ Len(fetched.value) = 1
    /\ [i \in 1..Len(MenuData) |-> MenuData[i].names]
           = <<<<Pizza>>, <<NotYetPublished>>, <<NotYetPublished>>, <<NotYetPublished>>, <<NotYetPublished>>>>

\* the failures the fetch pipeline raises
FetchFailures ==
    {"TransportError", "GraphQLError", "SiteNotInDistrict", "NoMenuTypes",
     "NotFound", "AmbiguousExact", "AmbiguousPartial"}

\* C4: every failure raised inside the fetch pipeline (transport error, API
\* error, site not in district, no menu types, name not found, ambiguous name)
\* is caught by generate_image, which still calls the renderer with a
\* well-formed menu_data and does not propagate the exception; a
\* settings-parsing failure is not caught: it leaves generate_image before any
\* network query or render call is made.
C4_SoleCatchPoint ==
    /\ (fetched.status = "raised" =>
           /\ fetched.error \in FetchFailures
           /\ raised.kind \in {"none", "RuntimeError"}
           /\ pc \in {<<"fetch_call">>, <<"select_days">>, <<"project">>, <<>>}
           /\ (pc = <<>> =>
                  /\ Len(rendered) = 1
                  /\ HasSchoolDayKeys(MenuData)))
    /\ (raised.kind = "RuntimeError" => Len(rendered) = 1)
    /\ (pc # <<"generate_image">> /\
            (Blank(settings.districtId) \/ Blank(settings.schoolId) \/ Blank(settings.menuName)) =>
           /\ ParseFailed
           /\ pc = <<>>)
    /\ (ParseFailed =>
           /\ queries = <<>>
           /\ rendered = <<>>
           /\ fetched = NotCalled
           /\ pc = <<>>)

\* an ambiguous menu name made the fetch fail, and the request ended with one
\* render call and no exception
C4_Witness ==
    /\ fetched.status = "raised"
    /\ fetched.error = "AmbiguousPartial"
    /\ pc = <<>>
    /\ Len(rendered) = 1
    /\ raised = NoError

\* the statement of C5 as claimed: when the fetch succeeds, a selected school
\* day whose ISO date is a key of the fetched mapping shows exactly that
\* date's fetched items, one whose date is not a key shows the single-element
\* list ["Not yet published"], and no selected day maps to an empty list
C5_SuccessfulFetch ==
    (rendered # <<>> /\ fetched.status = "returned") =>
        \A i \in 1..Len(SelectedDays) :
            LET iso == IsoFormat(SelectedDays[i])
            IN  /\ HasKey(MenuData, iso)
                /\ (HasKey(fetched.value, iso) =>
                       Lookup(MenuData, iso) = Lookup(fetched.value, iso))
                /\ (~HasKey(fetched.value, iso) =>
                       Lookup(MenuData, iso) = <<NotYetPublished>>)
                /\ Lookup(MenuData, iso) # <<>>

\* the selected days that have no fetched data, in order
AbsentDays == SelectSeq(SelectedDays, LAMBDA d : ~HasKey(fetched.value, IsoFormat(d)))

\* C5 (amended): when the fetch succeeds, for each selected school day d: if
\* d's ISO date is a key of the fetched mapping the output for d is exactly
\* that date's fetched item list, which is not empty; if it is not a key the
\* output for d is the single-element list ["Not yet published"] when d is on
\* or after the date date.today() returns at the moment d is projected, and an
\* empty list when d is before it; as long as the date has not changed since
\* the days were selected, no selected day maps to an empty list.
C5_PendingUnlessDatePassed ==
    (rendered # <<>> /\ fetched.status = "returned") =>
        /\ \A i \in 1..Len(SelectedDays) :
               LET iso == IsoFormat(SelectedDays[i])
               IN  /\ HasKey(MenuData, iso)
                   /\ (HasKey(fetched.value, iso) =>
                          /\ Lookup(MenuData, iso) = Lookup(fetched.value, iso)
                          /\ Lookup(MenuData, iso) # <<>>)
        /\ Len(ReadsAt(275)) = Len(AbsentDays)
        /\ \A k \in 1..Len(AbsentDays) :
               Lookup(MenuData, IsoFormat(AbsentDays[k])) =
                   IF Ordinal(AbsentDays[k]) >= Ordinal(ReadsAt(275)[k])
                   THEN <<NotYetPublished>>
                   ELSE <<>>
        /\ ((\A k \in 1..Len(AbsentDays) : ReadsAt(275)[k] = SelectionDay) =>
               \A i \in 1..Len(MenuData) : MenuData[i].names # <<>>)

\* two days shown after a fetch that returned nothing for them, midnight having
\* passed between the selection of the days and the projection of the first:
\* the first day is empty, the second shows the pending placeholder
C5_Witness ==
    /\ rendered # <<>>
    /\ fetched.status = "returned"
    /\ cfg.days = 2
    /\ midnight
    /\ ReadsAt(275) = <<AddDay(SelectionDay), AddDay(SelectionDay)>>
    /\ [i \in 1..Len(MenuData) |-> MenuData[i]]
           = << [key |-> IsoFormat(SelectionDay), names |-> <<>>],
                [key |-> IsoFormat(AddDay(SelectionDay)), names |-> <<NotYetPublished>>] >>

=============================================================================
